---- MODULE Spec2Model ----
(***************************************************************************)
(* Combat / boss-AI simulation loop of viben-ring.                         *)
(*                                                                         *)
(* Units.  Lengths are hundredths of a world unit (1.5 -> 150), angles are *)
(* milliradians (pi -> 3142), wall-clock times are milliseconds.  The      *)
(* floating point products of the source are computed with integer         *)
(* arithmetic rounded towards minus infinity.                              *)
(*                                                                         *)
(* Geometry.  In the frame-driven runs every camera yaw is 0 or pi and    *)
(* every actor stays on the world z axis (x = 0); in the leaf runs boss    *)
(* and player share one axis.  Every planar direction is then an axis      *)
(* direction, for which normalize() and atan2() are exact.                 *)
(*                                                                         *)
(* Time.  One Frame step is one requestAnimationFrame callback: the clock  *)
(* advances by the frame delta and the useFrame subscribers run in mount   *)
(* order (ThirdPersonCamera, Character, Boss).  setTimeout callbacks fire  *)
(* exactly when due: a frame never jumps over a pending timer.  React      *)
(* state written by a setter is committed before the next frame reads it.  *)
(***************************************************************************)
EXTENDS Integers, Sequences, FiniteSets, TLC

\* ------------------------------------------------------------------ bounds
MaxTimeBoss == 3600      \* the wall clock stops here in the boss runs (ms)
MaxTimePlayer == 1600    \* the wall clock stops here in the player runs (ms)
MaxAttacks == 3          \* player attacks started in one run
MaxTimeBossLong == 4600  \* the wall clock stops here in the long boss runs (ms)
MaxStoreOps == 5         \* store operations called in one store run
MaxTimeCadence == 200    \* the wall clock stops here in the cadence runs (ms)
MaxTimeBoth == 3200      \* the wall clock stops here in the two-attacker runs (ms)
MaxTimeInput == 800      \* the wall clock stops here in the player input runs (ms)

BossFrameDeltas == {200}    \* raw frame deltas of the boss runs (ms)
PlayerFrameDeltas == {100}  \* raw frame deltas of the player runs (ms)
CadenceFrameDeltas == {16, 33} \* raw frame deltas of the cadence runs (ms)

\* -------------------------------------------------------- program constants
Pi == 3142
Epoch == 2000            \* Date.now() - performance.now(): any value >= attackCooldown

AI_UPDATE_INTERVAL == 50
ATTACK_DAMAGE == 10
BossDamageDelay == 1200
ATTACK_COOLDOWN == 600
MIN_ATTACK_DAMAGE == 69
MAX_ATTACK_DAMAGE == 120
PlayerDamageDelay == 500
PlayerBackupDelay == 700
PlayerSpeed == 500       \* speed = 5 * delta: 5 units per second
SafeDeltaCap == 100      \* safeDelta = Math.min(delta, 0.1)
DodgeDuration == 600     \* dodgeDurationRef: 0.6 s
DodgeDistance == 200     \* dodgeDistanceRef: 2.0 units
MaxPlayerHp == 100
MaxBossHp == 2000

Vec(x, y, z) == [x |-> x, y |-> y, z |-> z]

Abs(n) == IF n < 0 THEN -n ELSE n
Min(a, b) == IF a <= b THEN a ELSE b
Max(a, b) == IF a >= b THEN a ELSE b
Sign(n) == IF n > 0 THEN 1 ELSE IF n < 0 THEN -1 ELSE 0

\* defaultGameState (the fields the simulation reads)
defaultGameState ==
  [ bossHp |-> MaxBossHp,
    playerHp |-> MaxPlayerHp,
    playerStamina |-> 100,
    playerPosition |-> Vec(0, 0, 0),
    playerRotation |-> 0,
    bossPosition |-> Vec(0, 0, 2000),
    bossRotation |-> Pi,
    playerCollisionSphereOffset |-> Vec(0, 100, 0),
    playerCollisionSphereRadius |-> 60,
    playerAttackSphereOffset |-> Vec(0, 100, 150),
    playerAttackSphereRadius |-> 80,
    bossCollisionSphereOffset |-> Vec(0, 200, 0),
    bossCollisionSphereRadius |-> 150,
    bossAttackSphereOffset |-> Vec(0, 150, 1000),
    bossAttackSphereRadius |-> 120,
    isDebugMode |-> FALSE ]

\* window.vibenRingGlobalState as the provider's mount effect builds it,
\* followed by the effect that copies the sphere descriptors into it
initialGlobalState ==
  [ playerPosition |-> Vec(0, 0, 0),
    playerRotation |-> 0,
    playerCollisionSphereOffset |-> defaultGameState.playerCollisionSphereOffset,
    playerCollisionSphereRadius |-> defaultGameState.playerCollisionSphereRadius,
    playerAttackSphereOffset |-> defaultGameState.playerAttackSphereOffset,
    playerAttackSphereRadius |-> defaultGameState.playerAttackSphereRadius,
    bossPosition |-> Vec(0, 0, 0),
    bossRotation |-> 0,
    bossCollisionSphereOffset |-> defaultGameState.bossCollisionSphereOffset,
    bossCollisionSphereRadius |-> defaultGameState.bossCollisionSphereRadius,
    bossAttackSphereOffset |-> defaultGameState.bossAttackSphereOffset,
    bossAttackSphereRadius |-> defaultGameState.bossAttackSphereRadius,
    playerHp |-> defaultGameState.playerHp,
    bossHp |-> defaultGameState.bossHp ]

initBossAIState ==
  [ isAttacking |-> FALSE,
    lastAttackTime |-> 0,
    attackCooldown |-> 2000,
    attackRange |-> 1000,
    moveSpeed |-> 350,
    turnSpeed |-> 2500,
    currentAction |-> "idle" ]

\* ---------------------------------------------------------------- geometry
\* Math.sin on milliradians, scaled by 1000 (Bhaskara's rational
\* approximation; exact at the multiples of pi/2)
SinHalf(x) ==
  LET p == x * (Pi - x)
  IN (16 * p) \div ((5 * Pi * Pi - 4 * p) \div 1000)

Sin1000(a) ==
  LET m == a % (2 * Pi)
  IN IF m <= Pi THEN SinHalf(m) ELSE -SinHalf(m - Pi)

Cos1000(a) == Sin1000(a + Pi \div 2)

Round1000(n) == (n + 500) \div 1000

\* Vector3.applyMatrix4(new Matrix4().makeRotationFromEuler(Euler(0, yaw, 0)))
applyYaw(v, yaw) ==
  Vec(Round1000(Cos1000(yaw) * v.x + Sin1000(yaw) * v.z),
      v.y,
      Round1000(Cos1000(yaw) * v.z - Sin1000(yaw) * v.x))

DistSq(a, b) ==
  (a.x - b.x) * (a.x - b.x) + (a.y - b.y) * (a.y - b.y) + (a.z - b.z) * (a.z - b.z)

\* didSpheresCollide with a strict comparison
didSpheresCollideOpen(c1, r1, c2, r2) == DistSq(c1, c2) < (r1 + r2) * (r1 + r2)

\* didSpheresCollide: distance <= r1 + r2, compared on the squares
didSpheresCollide(c1, r1, c2, r2) == DistSq(c1, c2) <= (r1 + r2) * (r1 + r2)

\* a call that takes the difference in the first argument instead of a copy
didSpheresCollideCallInPlace(c1, r1, c2, r2) ==
  [ collides |-> didSpheresCollide(c1, r1, c2, r2),
    sphere1Center |-> Vec(c1.x - c2.x, c1.y - c2.y, c1.z - c2.z),
    sphere2Center |-> c2 ]

\* one call of didSpheresCollide: its result and the two argument vectors as
\* the call leaves them (the function works on copies)
didSpheresCollideCall(c1, r1, c2, r2) ==
  [ collides |-> didSpheresCollide(c1, r1, c2, r2),
    sphere1Center |-> c1,
    sphere2Center |-> c2 ]

\* bossPosition.distanceTo(playerPosition) <= range (all three coordinates)
distanceToPlayerWithin(bossPosition, playerPosition, range) ==
  DistSq(bossPosition, playerPosition) <= range * range

\* directionToPlayer: the planar difference, normalized; actors stay on an
\* axis, so the unit vector is a sign, scaled here by 1
directionToPlayer(bossPosition, playerPosition) ==
  Vec(Sign(playerPosition.x - bossPosition.x), 0, Sign(playerPosition.z - bossPosition.z))

\* Math.atan2(direction.x, direction.z) for an axis direction or the zero vector
angleToFacePlayer(bossPosition, playerPosition) ==
  LET d == directionToPlayer(bossPosition, playerPosition)
  IN IF d.x = 0 THEN (IF d.z >= 0 THEN 0 ELSE Pi)
     ELSE IF d.x > 0 THEN Pi \div 2 ELSE -(Pi \div 2)

\* the two while loops that bring an angle difference into [-pi, pi]
RECURSIVE wrapAngle(_)
wrapAngle(d) ==
  IF d > Pi THEN wrapAngle(d - 2 * Pi)
  ELSE IF d < -Pi THEN wrapAngle(d + 2 * Pi)
  ELSE d

FacingThreshold == 200
TurnDoneThreshold == 100

isFacingPlayer(bossRotation, bossPosition, playerPosition) ==
  Abs(wrapAngle(angleToFacePlayer(bossPosition, playerPosition) - bossRotation)) < FacingThreshold

\* ------------------------------------------------------------------- store
\* The reactive store (state) and its window-scoped mirror (global) as one
\* pair st = [state |-> ..., global |-> ...]; each setter writes what the
\* source writes.
setBossHp(st, hp) == [st EXCEPT !.state.bossHp = hp]

\* applyDmgToBoss with the Math.max dropped
applyDmgToBossUnclamped(st, dmg) == [st EXCEPT !.state.bossHp = st.state.bossHp - dmg]

applyDmgToBoss(st, dmg) == [st EXCEPT !.state.bossHp = Max(st.state.bossHp - dmg, 0)]

setPlayerHp(st, hp) == [st EXCEPT !.state.playerHp = hp, !.global.playerHp = hp]

setPlayerStamina(st, stamina) == [st EXCEPT !.state.playerStamina = stamina]

setPlayerPosition(st, position) ==
  [st EXCEPT !.state.playerPosition = position, !.global.playerPosition = position]

setPlayerRotation(st, rotation) ==
  [st EXCEPT !.state.playerRotation = rotation, !.global.playerRotation = rotation]

setBossPosition(st, position) ==
  [st EXCEPT !.state.bossPosition = position, !.global.bossPosition = position]

setBossRotation(st, rotation) ==
  [st EXCEPT !.state.bossRotation = rotation, !.global.bossRotation = rotation]

\* the new debug flag is also saved to localStorage, which no store field reads back
toggleDebugMode(st) == [st EXCEPT !.state.isDebugMode = ~st.state.isDebugMode]

\* a reset that carries the debug flag over
resetGameStateKeepsDebug(st) ==
  [st EXCEPT !.state = [defaultGameState EXCEPT !.isDebugMode = st.state.isDebugMode]]

resetGameState(st) == [st EXCEPT !.state = defaultGameState]

\* ----------------------------------------------------------- behavior tree
SUCCESS == "SUCCESS"
FAILURE == "FAILURE"
RUNNING == "RUNNING"

\* createBossBehaviorTree: the composites and their children, in order;
\* "selector" and "sequence" are a bare Selector and a bare Sequence over
\* three leaves that answer the statuses handed to the tick
Composites ==
  {"rootNode", "attackSequence", "chaseSequence", "facingSelector", "selector", "sequence"}

NodeType(n) ==
  IF n \in {"rootNode", "facingSelector", "selector"} THEN "SELECTOR"
  ELSE IF n \in {"attackSequence", "chaseSequence", "sequence"} THEN "SEQUENCE"
  ELSE IF n \in {"inAttackRange", "attackOffCooldown", "isFacingPlayerNode"} THEN "CONDITION"
  ELSE "ACTION"

Children(n) ==
  IF n = "rootNode" THEN <<"attackSequence", "chaseSequence">>
  ELSE IF n = "attackSequence" THEN <<"inAttackRange", "attackOffCooldown", "performAttack">>
  ELSE IF n = "chaseSequence" THEN <<"facingSelector", "moveTowardsPlayer">>
  ELSE IF n = "facingSelector" THEN <<"isFacingPlayerNode", "turnTowardsPlayer">>
  ELSE IF n \in {"selector", "sequence"} THEN <<"child1", "child2", "child3">>
  ELSE << >>

\* new CompositeNode(...): currentChild = 0
FreshCursors == [n \in Composites |-> 0]

\* The tick context w: gameState is the store snapshot the leaves' closures
\* captured, st the store the setters write, ai is bossAIRef.current,
\* delta the scaled delta in tenths of a millisecond, dateNow is Date.now(),
\* triggers counts triggerBossAttack() calls, trace lists the leaves run,
\* statuses are the answers of child1..child3.
Result(status, w) == [status |-> status, w |-> w]

Ran(w, leaf) == [w EXCEPT !.trace = Append(@, leaf)]

inAttackRange(w) ==
  Result(IF distanceToPlayerWithin(w.gameState.bossPosition, w.gameState.playerPosition,
                                   w.ai.attackRange)
         THEN SUCCESS ELSE FAILURE, w)

\* attackOffCooldown with the cooldown test dropped
attackOffCooldownAlways(w) == Result(SUCCESS, w)

attackOffCooldown(w) ==
  Result(IF w.dateNow - w.ai.lastAttackTime >= w.ai.attackCooldown
         THEN SUCCESS ELSE FAILURE, w)

\* performAttack with the isAttacking test dropped
performAttackUnguarded(w) ==
  Result(SUCCESS,
         [w EXCEPT !.ai.isAttacking = TRUE,
                   !.ai.lastAttackTime = w.dateNow,
                   !.ai.currentAction = "attack",
                   !.triggers = @ + 1])

\* performAttack that stamps lastAttackTime again while the attack is running
performAttackRestamps(w) ==
  IF ~w.ai.isAttacking
  THEN Result(SUCCESS,
              [w EXCEPT !.ai.isAttacking = TRUE,
                        !.ai.lastAttackTime = w.dateNow,
                        !.ai.currentAction = "attack",
                        !.triggers = @ + 1])
  ELSE Result(RUNNING, [w EXCEPT !.ai.lastAttackTime = w.dateNow])

performAttack(w) ==
  IF ~w.ai.isAttacking
  THEN Result(SUCCESS,
              [w EXCEPT !.ai.isAttacking = TRUE,
                        !.ai.lastAttackTime = w.dateNow,
                        !.ai.currentAction = "attack",
                        !.triggers = @ + 1])
  ELSE Result(RUNNING, w)

\* isFacingPlayerNode answering FAILURE whatever the yaw
isFacingPlayerNodeNever(w) == Result(FAILURE, w)

isFacingPlayerNode(w) ==
  Result(IF isFacingPlayer(w.gameState.bossRotation, w.gameState.bossPosition,
                           w.gameState.playerPosition)
         THEN SUCCESS ELSE FAILURE, w)

\* turnTowardsPlayer with the Math.min against the remaining difference dropped
turnTowardsPlayerOvershoot(w) ==
  LET targetAngle == angleToFacePlayer(w.gameState.bossPosition, w.gameState.playerPosition)
      currentRotation == w.gameState.bossRotation
      angleDiff == wrapAngle(targetAngle - currentRotation)
      rotationAmount == Sign(angleDiff) * ((w.ai.turnSpeed * w.delta) \div 10000)
  IN Result(IF Abs(angleDiff) < TurnDoneThreshold THEN SUCCESS ELSE RUNNING,
            [w EXCEPT !.st = setBossRotation(@, currentRotation + rotationAmount),
                      !.ai.currentAction = "turning"])

turnTowardsPlayer(w) ==
  LET targetAngle == angleToFacePlayer(w.gameState.bossPosition, w.gameState.playerPosition)
      currentRotation == w.gameState.bossRotation
      angleDiff == wrapAngle(targetAngle - currentRotation)
      rotationAmount ==
        Sign(angleDiff) * Min(Abs(angleDiff), (w.ai.turnSpeed * w.delta) \div 10000)
  IN Result(IF Abs(angleDiff) < TurnDoneThreshold THEN SUCCESS ELSE RUNNING,
            [w EXCEPT !.st = setBossRotation(@, currentRotation + rotationAmount),
                      !.ai.currentAction = "turning"])

\* moveTowardsPlayer with the step taken along the reversed direction
moveTowardsPlayerAway(w) ==
  LET direction == directionToPlayer(w.gameState.playerPosition, w.gameState.bossPosition)
      inRange == distanceToPlayerWithin(w.gameState.bossPosition, w.gameState.playerPosition,
                                        w.ai.attackRange)
      moveDistance == (w.ai.moveSpeed * w.delta) \div 10000
      newPosition == Vec(w.gameState.bossPosition.x + direction.x * moveDistance,
                         w.gameState.bossPosition.y + direction.y * moveDistance,
                         w.gameState.bossPosition.z + direction.z * moveDistance)
  IN IF w.ai.isAttacking THEN Result(FAILURE, w)
     ELSE IF inRange THEN Result(SUCCESS, [w EXCEPT !.ai.currentAction = "idle"])
     ELSE Result(RUNNING,
                 [w EXCEPT !.st = setBossPosition(@, newPosition),
                           !.ai.currentAction = "moving"])

\* moveTowardsPlayer with the isAttacking test dropped
moveTowardsPlayerWhileAttacking(w) ==
  LET direction == directionToPlayer(w.gameState.bossPosition, w.gameState.playerPosition)
      inRange == distanceToPlayerWithin(w.gameState.bossPosition, w.gameState.playerPosition,
                                        w.ai.attackRange)
      moveDistance == (w.ai.moveSpeed * w.delta) \div 10000
      newPosition == Vec(w.gameState.bossPosition.x + direction.x * moveDistance,
                         w.gameState.bossPosition.y + direction.y * moveDistance,
                         w.gameState.bossPosition.z + direction.z * moveDistance)
  IN IF inRange THEN Result(SUCCESS, [w EXCEPT !.ai.currentAction = "idle"])
     ELSE Result(RUNNING,
                 [w EXCEPT !.st = setBossPosition(@, newPosition),
                           !.ai.currentAction = "moving"])

moveTowardsPlayer(w) ==
  LET direction == directionToPlayer(w.gameState.bossPosition, w.gameState.playerPosition)
      inRange == distanceToPlayerWithin(w.gameState.bossPosition, w.gameState.playerPosition,
                                        w.ai.attackRange)
      moveDistance == (w.ai.moveSpeed * w.delta) \div 10000
      newPosition == Vec(w.gameState.bossPosition.x + direction.x * moveDistance,
                         w.gameState.bossPosition.y + direction.y * moveDistance,
                         w.gameState.bossPosition.z + direction.z * moveDistance)
  IN IF w.ai.isAttacking THEN Result(FAILURE, w)
     ELSE IF inRange THEN Result(SUCCESS, [w EXCEPT !.ai.currentAction = "idle"])
     ELSE Result(IF inRange THEN SUCCESS ELSE RUNNING,
                 [w EXCEPT !.st = setBossPosition(@, newPosition),
                           !.ai.currentAction = "moving"])

\* LeafNode.execute: run the leaf's closure
LeafExecute(n, w) ==
  LET v == Ran(w, n)
  IN CASE n = "inAttackRange" -> inAttackRange(v)
       [] n = "attackOffCooldown" -> attackOffCooldown(v)
       [] n = "performAttack" -> performAttack(v)
       [] n = "isFacingPlayerNode" -> isFacingPlayerNode(v)
       [] n = "turnTowardsPlayer" -> turnTowardsPlayer(v)
       [] n = "moveTowardsPlayer" -> moveTowardsPlayer(v)
       [] n = "child1" -> Result(v.statuses[1], v)
       [] n = "child2" -> Result(v.statuses[2], v)
       [] n = "child3" -> Result(v.statuses[3], v)

\* the value of a one-element set: binds a child's result once, as the
\* const status = ...execute() of the source does
TheOne(S) == CHOOSE x \in S : TRUE

\* CompositeNode.execute; currentChild is w.cursor[n]
RECURSIVE Execute(_, _), SelectorLoop(_, _), SequenceLoop(_, _)
\* the Selector loop with the cursor reset on SUCCESS dropped
SelectorLoopKeepsCursor(n, w) ==
  IF w.cursor[n] < Len(Children(n))
  THEN TheOne({ IF r.status = RUNNING THEN r
                ELSE IF r.status = SUCCESS
                THEN Result(SUCCESS, r.w)
                ELSE SelectorLoop(n, [r.w EXCEPT !.cursor[n] = @ + 1])
                : r \in {Execute(Children(n)[w.cursor[n] + 1], w)} })
  ELSE Result(FAILURE, [w EXCEPT !.cursor[n] = 0])

SelectorLoop(n, w) ==
  IF w.cursor[n] < Len(Children(n))
  THEN TheOne({ IF r.status = RUNNING THEN r
                ELSE IF r.status = SUCCESS
                THEN Result(SUCCESS, [r.w EXCEPT !.cursor[n] = 0])
                ELSE SelectorLoop(n, [r.w EXCEPT !.cursor[n] = @ + 1])
                : r \in {Execute(Children(n)[w.cursor[n] + 1], w)} })
  ELSE Result(FAILURE, [w EXCEPT !.cursor[n] = 0])

\* the Sequence loop that moves on to the next child after a FAILURE
SequenceLoopPastFailure(n, w) ==
  IF w.cursor[n] < Len(Children(n))
  THEN TheOne({ IF r.status = RUNNING THEN r
                ELSE SequenceLoop(n, [r.w EXCEPT !.cursor[n] = @ + 1])
                : r \in {Execute(Children(n)[w.cursor[n] + 1], w)} })
  ELSE Result(SUCCESS, [w EXCEPT !.cursor[n] = 0])

SequenceLoop(n, w) ==
  IF w.cursor[n] < Len(Children(n))
  THEN TheOne({ IF r.status = RUNNING THEN r
                ELSE IF r.status = FAILURE
                THEN Result(FAILURE, [r.w EXCEPT !.cursor[n] = 0])
                ELSE SequenceLoop(n, [r.w EXCEPT !.cursor[n] = @ + 1])
                : r \in {Execute(Children(n)[w.cursor[n] + 1], w)} })
  ELSE Result(SUCCESS, [w EXCEPT !.cursor[n] = 0])

Execute(n, w) ==
  IF n \notin Composites THEN TheOne({ LeafExecute(n, v) : v \in {w} })
  ELSE TheOne({ IF NodeType(n) = "SELECTOR" THEN SelectorLoop(n, v) ELSE SequenceLoop(n, v)
                : v \in { IF w.cursor[n] >= Len(Children(n))
                          THEN [w EXCEPT !.cursor[n] = 0] ELSE w } })

\* ------------------------------------------------------------------- state
VARIABLES
  now,                 \* performance.now(); Date.now() is now + Epoch
  st,                  \* [state |-> the store, global |-> window.vibenRingGlobalState]
  bossAI,              \* bossAIRef.current
  lastAIUpdateTime,    \* lastAIUpdateTimeRef.current
  bossMixer,           \* mixerRef.current and actionsRef.current.attack exist (Boss)
  bossAnim,            \* the boss attack action is playing
  bossListener,        \* an onFinished listener is registered on the boss mixer
  bossDamageTimers,    \* due times of the pending 1200 ms callbacks
  playerAttacking,     \* isAttackingRef.current (Character)
  playerLastAttackTime,\* lastAttackTimeRef.current
  playerMixer,         \* mixerRef.current and actionsRef.current.attack exist (Character)
  playerAnim,          \* the player attack action is playing
  playerListeners,     \* attacks whose onFinished listener is registered
  playerBackupTimers,  \* [id, due] of the pending 700 ms callbacks
  playerDamageTimers,  \* due times of the pending 500 ms callbacks
  attackCount,         \* player attacks started so far (the id of the latest)
  playerDodge,         \* isDodgingRef, dodgeStartTimeRef and dodgeDirectionRef (Character)
  keptCursor,          \* currentChild of each composite of a tree that is kept across ticks
  lastTick,            \* history: what the latest boss root tick did
  lastOp,              \* history: the latest handler and its outcome
  hist                 \* history: attack bookkeeping used by the properties

vars ==
  << now, st, bossAI, lastAIUpdateTime, bossMixer, bossAnim, bossListener,
     bossDamageTimers, playerAttacking, playerLastAttackTime, playerMixer,
     playerAnim, playerListeners, playerBackupTimers, playerDamageTimers,
     attackCount, playerDodge, keptCursor, lastTick, lastOp, hist >>

DateNow(t) == t + Epoch

NoTick == [executed |-> FALSE]

initHist ==
  [ flagOwner |-> 0,        \* the player attack that set playerAttacking
    clearedBy |-> 0,        \* the attack whose handler last cleared it ...
    clearedOwner |-> 0,     \* ... and the attack that owned the flag then
    bossAttacks |-> 0,      \* boss attacks triggered (counted up to 2)
    bossFinished |-> -1,    \* Date.now() of the latest boss completion signal
    bossStart |-> -1,       \* Date.now() of the latest boss attack start
    bossGap |-> -1,         \* latest start minus the completion before it
    storeOps |-> 0,         \* store operations called directly so far
    arg |-> 0,              \* argument of the latest HP-writing operation
    hpBefore |-> MaxBossHp, \* bossHp before the latest HP-writing operation
    lastExec |-> -1 ]       \* performance.now() of the latest tree execution

Init ==
  /\ now = 0
  /\ st = [state |-> defaultGameState, global |-> initialGlobalState]
  /\ bossAI = initBossAIState
  /\ lastAIUpdateTime = 0
  /\ bossMixer = FALSE
  /\ bossAnim = FALSE
  /\ bossListener = FALSE
  /\ bossDamageTimers = {}
  /\ playerAttacking = FALSE
  /\ playerLastAttackTime = 0
  /\ playerMixer = FALSE
  /\ playerAnim = FALSE
  /\ playerListeners = {}
  /\ playerBackupTimers = {}
  /\ playerDamageTimers = {}
  /\ attackCount = 0
  /\ playerDodge = [isDodging |-> FALSE, dodgeStartTime |-> 0, dodgeDirection |-> Vec(0, 0, 0)]
  /\ keptCursor = FreshCursors
  /\ lastTick = NoTick
  /\ lastOp = "Init"
  /\ hist = initHist

\* every pending setTimeout deadline
Deadlines ==
  bossDamageTimers \cup playerDamageTimers \cup {t.due : t \in playerBackupTimers}

\* ------------------------------------------------------- overlap tests
VecAdd(a, b) == Vec(a.x + b.x, a.y + b.y, a.z + b.z)

\* Character damage callback: the overlap test on the mirror
playerAttackSpherePosition(g) ==
  VecAdd(g.playerPosition, applyYaw(g.playerAttackSphereOffset, g.playerRotation))

playerAttackCollides(g) ==
  didSpheresCollide(playerAttackSpherePosition(g), g.playerAttackSphereRadius,
                    VecAdd(g.bossPosition, g.bossCollisionSphereOffset),
                    g.bossCollisionSphereRadius)

\* Boss damage callback: the overlap test on the mirror (z uses minus)
bossAttackSpherePosition(g) ==
  LET bossAttackOffset == applyYaw(g.bossAttackSphereOffset, g.bossRotation)
  IN Vec(g.bossPosition.x + bossAttackOffset.x,
         g.bossPosition.y + bossAttackOffset.y,
         g.bossPosition.z - bossAttackOffset.z)

bossAttackCollides(g) ==
  didSpheresCollide(bossAttackSpherePosition(g), g.bossAttackSphereRadius,
                    VecAdd(g.playerPosition, g.playerCollisionSphereOffset),
                    g.playerCollisionSphereRadius)

\* ------------------------------------------------------------------ frames
Keys == {"none", "forward"}

\* delta * (AI_UPDATE_INTERVAL / 16.67), in tenths of a millisecond
scaledDelta(dt) == (dt * 10 * AI_UPDATE_INTERVAL * 100) \div 1667

\* ThirdPersonCamera useFrame: forces the player yaw while the pointer is locked
cameraFrame(s, locked, yaw) == IF locked THEN setPlayerRotation(s, yaw) ELSE s

\* Character useFrame, movement part: speed = 5 * delta along the yaw of the
\* store snapshot, then setPlayerPosition; skipped while attacking
characterMove(s, snapshot, dt, key, attacking) ==
  LET speed == (PlayerSpeed * dt) \div 1000
      moveVector == IF key = "forward"
                    THEN applyYaw(Vec(0, 0, speed), snapshot.playerRotation)
                    ELSE Vec(0, 0, 0)
      position == Vec(snapshot.playerPosition.x + moveVector.x,
                      snapshot.playerPosition.y + moveVector.y,
                      snapshot.playerPosition.z + moveVector.z)
  IN IF attacking THEN s ELSE setPlayerPosition(s, position)

\* Character useFrame, dodge part: the step of this frame along the stored
\* dodge direction, on a sine curve over the dodge duration, then
\* setPlayerPosition
characterDodge(s, snapshot, dodge, dt, t) ==
  LET dodgeElapsed == t - dodge.dodgeStartTime
      dodgeProgressCurve == Sin1000((Min(dodgeElapsed, DodgeDuration) * Pi) \div DodgeDuration)
      frameDistance == (DodgeDistance * dt * dodgeProgressCurve) \div (DodgeDuration * 1000)
      position == Vec(snapshot.playerPosition.x + Round1000(dodge.dodgeDirection.x * frameDistance),
                      snapshot.playerPosition.y + Round1000(dodge.dodgeDirection.y * frameDistance),
                      snapshot.playerPosition.z + Round1000(dodge.dodgeDirection.z * frameDistance))
  IN setPlayerPosition(s, position)

endDodge(dodge) == [dodge EXCEPT !.isDodging = FALSE]

\* Boss onFinished with the lastAttackTime stamp dropped
bossOnFinishedNoStamp(ai, t) ==
  [ai EXCEPT !.isAttacking = FALSE, !.currentAction = "idle"]

\* Boss onFinished: stamp the cooldown, clear the flag, go idle
bossOnFinished(ai, t) ==
  [ai EXCEPT !.lastAttackTime = DateNow(t), !.isAttacking = FALSE, !.currentAction = "idle"]

\* the throttle with the interval test dropped
shouldRunAIEveryFrame(t, last) == TRUE

\* the throttle of the Boss useFrame: now - lastAIUpdateTimeRef.current > AI_UPDATE_INTERVAL
shouldRunAI(t, last) == t - last > AI_UPDATE_INTERVAL

\* the gate of the AI tick with the playerHp test dropped
playerAliveAlways(gameState) == TRUE

\* the gate of the AI tick: if (state.playerHp > 0)
playerAlive(gameState) == gameState.playerHp > 0

\* One root tick of a freshly built tree (Boss useFrame, lines 310-320)
bossTick(snapshot, s, ai, dt, t) ==
  Execute("rootNode",
          [ gameState |-> snapshot, st |-> s, ai |-> ai, cursor |-> FreshCursors,
            triggers |-> 0, trace |-> << >>, delta |-> scaledDelta(dt),
            dateNow |-> DateNow(t), statuses |-> << >> ])

\* One root tick of a tree that was built once: the composites resume at the
\* cursors the previous tick left
bossTickKept(snapshot, s, ai, dt, t, cursor) ==
  Execute("rootNode",
          [ gameState |-> snapshot, st |-> s, ai |-> ai, cursor |-> cursor,
            triggers |-> 0, trace |-> << >>, delta |-> scaledDelta(dt),
            dateNow |-> DateNow(t), statuses |-> << >> ])

TickRecord(r, k, snapshot, ai, t) ==
  [ executed |-> TRUE,
    execGap |-> IF hist.lastExec < 0 THEN -1 ELSE t - hist.lastExec,
    playerHp |-> snapshot.playerHp,
    keptStatus |-> k.status,
    keptTrace |-> k.w.trace,
    keptAgrees |-> (k.status = r.status /\ k.w.ai = r.w.ai /\ k.w.st = r.w.st
                    /\ k.w.triggers = r.w.triggers),
    status |-> r.status,
    trace |-> r.w.trace,
    triggers |-> r.w.triggers,
    inRange |-> distanceToPlayerWithin(snapshot.bossPosition, snapshot.playerPosition,
                                       ai.attackRange),
    offCooldown |-> DateNow(t) - ai.lastAttackTime >= ai.attackCooldown,
    wasAttacking |-> ai.isAttacking,
    actionBefore |-> ai.currentAction,
    positionBefore |-> snapshot.bossPosition,
    rotationBefore |-> snapshot.bossRotation,
    attackingAfter |-> r.w.ai.isAttacking,
    actionAfter |-> r.w.ai.currentAction,
    positionAfter |-> r.w.st.state.bossPosition,
    rotationAfter |-> r.w.st.state.bossRotation ]

Frame(dt, locked, yaw, key, finP, finB) ==
  LET t == now + dt
      snapshot == st.state
      \* Character: mixer.update may dispatch 'finished' to every listener
      pFinished == playerMixer /\ playerAnim /\ finP
      pCleared == pFinished /\ playerListeners # {}
      attacking == IF pCleared THEN FALSE ELSE playerAttacking
      isDodging == playerDodge.isDodging
      \* Boss: mixer.update, then the throttled AI tick
      bFinished == bossMixer /\ bossAnim /\ finB
      bCleared == bFinished /\ bossListener
      runAI == shouldRunAI(t, lastAIUpdateTime)
      ticked == runAI /\ playerAlive(snapshot)
  IN \E sChar \in {IF isDodging
                    THEN characterDodge(cameraFrame(st, locked, yaw), snapshot, playerDodge, dt, t)
                    ELSE characterMove(cameraFrame(st, locked, yaw), snapshot, dt, key,
                                       attacking)},
        ai1 \in {IF bCleared THEN bossOnFinished(bossAI, t) ELSE bossAI} :
     \E r \in {bossTick(snapshot, sChar, ai1, dt, t)},
        kept \in {bossTickKept(snapshot, sChar, ai1, dt, t, keptCursor)} :
     LET triggered == ticked /\ r.w.triggers > 0
         started == triggered /\ bossMixer
     IN
     /\ \A d \in Deadlines : d >= t
     /\ now' = t
     /\ st' = IF ticked THEN r.w.st ELSE sChar
     /\ bossAI' = IF ticked THEN r.w.ai ELSE ai1
     /\ lastAIUpdateTime' = IF runAI THEN t ELSE lastAIUpdateTime
     /\ bossAnim' = IF started THEN TRUE ELSE IF bFinished THEN FALSE ELSE bossAnim
     /\ bossListener' = IF started THEN TRUE ELSE IF bCleared THEN FALSE ELSE bossListener
     /\ bossDamageTimers' = IF started THEN bossDamageTimers \cup {t + BossDamageDelay}
                            ELSE bossDamageTimers
     /\ playerAttacking' = attacking
     /\ playerAnim' = IF pFinished THEN FALSE ELSE playerAnim
     /\ playerListeners' = IF pFinished THEN {} ELSE playerListeners
     /\ keptCursor' = IF ticked THEN kept.w.cursor ELSE keptCursor
     /\ lastTick' = IF ticked THEN TickRecord(r, kept, snapshot, ai1, t) ELSE NoTick
     /\ lastOp' = "Frame"
     /\ hist' = [hist EXCEPT
          !.clearedBy = IF pCleared /\ playerAttacking
                        THEN (IF hist.flagOwner \in playerListeners THEN hist.flagOwner
                              ELSE CHOOSE k \in playerListeners : TRUE)
                        ELSE @,
          !.clearedOwner = IF pCleared /\ playerAttacking THEN hist.flagOwner ELSE @,
          !.bossAttacks = IF triggered /\ @ < 2 THEN @ + 1 ELSE @,
          !.bossStart = IF triggered THEN DateNow(t) ELSE @,
          !.bossGap = IF triggered
                      THEN (IF bCleared THEN 0
                            ELSE IF hist.bossFinished >= 0 THEN DateNow(t) - hist.bossFinished
                            ELSE -1)
                      ELSE @,
          !.bossFinished = IF triggered THEN -1 ELSE IF bCleared THEN DateNow(t) ELSE @,
          !.lastExec = IF ticked THEN t ELSE @ ]
     /\ playerDodge' = IF isDodging /\ t - playerDodge.dodgeStartTime >= DodgeDuration
                       THEN endDodge(playerDodge) ELSE playerDodge
     /\ UNCHANGED << bossMixer, playerMixer, playerLastAttackTime, playerBackupTimers,
                     playerDamageTimers, attackCount >>

\* the model and animations finished loading: the setup effect creates the mixer
BossSetup ==
  /\ ~bossMixer
  /\ bossMixer' = TRUE
  /\ lastOp' = "BossSetup"
  /\ UNCHANGED << now, st, bossAI, lastAIUpdateTime, bossAnim, bossListener,
                  bossDamageTimers, playerAttacking, playerLastAttackTime, playerMixer,
                  playerAnim, playerListeners, playerBackupTimers, playerDamageTimers,
                  attackCount, keptCursor, lastTick, hist, playerDodge >>

PlayerSetup ==
  /\ ~playerMixer
  /\ playerMixer' = TRUE
  /\ lastOp' = "PlayerSetup"
  /\ UNCHANGED << now, st, bossAI, lastAIUpdateTime, bossMixer, bossAnim, bossListener,
                  bossDamageTimers, playerAttacking, playerLastAttackTime,
                  playerAnim, playerListeners, playerBackupTimers, playerDamageTimers,
                  attackCount, keptCursor, lastTick, hist, playerDodge >>

\* ------------------------------------------------------- attacks and timers
PlayerDamageValues == {69, 119}   \* Math.random() * (120 - 69) + 69, sampled

\* the Character damage callback with the collision test dropped
playerDamageResolveAlways(s, dmg) ==
  IF s.global.bossHp > 0 THEN applyDmgToBoss(s, dmg) ELSE s

\* the store after the Character damage callback ran
playerDamageResolve(s, dmg) ==
  IF playerAttackCollides(s.global) /\ s.global.bossHp > 0
  THEN applyDmgToBoss(s, dmg)
  ELSE s

\* the Boss damage callback with neither the playerHp test nor the Math.max
bossDamageResolveUnguarded(s) ==
  IF bossAttackCollides(s.global)
  THEN setPlayerHp(s, s.global.playerHp - ATTACK_DAMAGE)
  ELSE s

\* the Boss damage callback with the Math.max dropped
bossDamageResolveUnclamped(s) ==
  IF bossAttackCollides(s.global) /\ s.global.playerHp > 0
  THEN setPlayerHp(s, s.global.playerHp - ATTACK_DAMAGE)
  ELSE s

\* the store after the Boss damage callback ran
bossDamageResolve(s) ==
  IF bossAttackCollides(s.global) /\ s.global.playerHp > 0
  THEN setPlayerHp(s, Max(0, s.global.playerHp - ATTACK_DAMAGE))
  ELSE s

\* handleMouseClick with the cooldown test dropped
MouseClickNoCooldown ==
  LET id == attackCount + 1
  IN /\ attackCount < MaxAttacks
     /\ ~playerAttacking
     /\ ~playerDodge.isDodging
     /\ playerMixer
     /\ playerAttacking' = TRUE
     /\ playerLastAttackTime' = DateNow(now)
     /\ playerAnim' = TRUE
     /\ playerDamageTimers' = playerDamageTimers \cup {now + PlayerDamageDelay}
     /\ playerListeners' = playerListeners \cup {id}
     /\ playerBackupTimers' = playerBackupTimers \cup {[id |-> id, due |-> now + PlayerBackupDelay]}
     /\ attackCount' = id
     /\ hist' = [hist EXCEPT !.flagOwner = id]
     /\ lastOp' = "MouseClick"
     /\ UNCHANGED << now, st, bossAI, lastAIUpdateTime, bossMixer, bossAnim, bossListener,
                     bossDamageTimers, playerMixer, keptCursor, lastTick, playerDodge >>

\* handleMouseClick, left button, past its guards
MouseClick ==
  LET id == attackCount + 1
  IN /\ attackCount < MaxAttacks
     /\ ~playerAttacking
     /\ ~playerDodge.isDodging
     /\ DateNow(now) - playerLastAttackTime >= ATTACK_COOLDOWN
     /\ playerMixer
     /\ playerAttacking' = TRUE
     /\ playerLastAttackTime' = DateNow(now)
     /\ playerAnim' = TRUE
     /\ playerDamageTimers' = playerDamageTimers \cup {now + PlayerDamageDelay}
     /\ playerListeners' = playerListeners \cup {id}
     /\ playerBackupTimers' = playerBackupTimers \cup {[id |-> id, due |-> now + PlayerBackupDelay]}
     /\ attackCount' = id
     /\ hist' = [hist EXCEPT !.flagOwner = id]
     /\ lastOp' = "MouseClick"
     /\ UNCHANGED << now, st, bossAI, lastAIUpdateTime, bossMixer, bossAnim, bossListener,
                     bossDamageTimers, playerMixer, keptCursor, lastTick, playerDodge >>

\* triggerDodge (Space key), past its guard: the dodge runs along the yaw of
\* the mirror at the time of the key press
TriggerDodge ==
  /\ ~playerDodge.isDodging
  /\ ~playerAttacking
  /\ playerDodge' = [isDodging |-> TRUE, dodgeStartTime |-> now,
                     dodgeDirection |-> applyYaw(Vec(0, 0, 1000), st.global.playerRotation)]
  /\ lastOp' = "TriggerDodge"
  /\ UNCHANGED << now, st, bossAI, lastAIUpdateTime, bossMixer, bossAnim, bossListener,
                  bossDamageTimers, playerAttacking, playerLastAttackTime, playerMixer,
                  playerAnim, playerListeners, playerBackupTimers, playerDamageTimers,
                  attackCount, keptCursor, lastTick, hist >>

\* the 500 ms setTimeout callback of handleMouseClick
PlayerDamageTimer(due, dmg) ==
  /\ due \in playerDamageTimers
  /\ due <= now
  /\ playerDamageTimers' = playerDamageTimers \ {due}
  /\ st' = playerDamageResolve(st, dmg)
  /\ lastOp' = IF playerAttackCollides(st.global) THEN "PlayerDamageOverlap"
               ELSE "PlayerDamageMiss"
  /\ hist' = [hist EXCEPT !.arg = dmg, !.hpBefore = st.state.bossHp]
  /\ UNCHANGED << now, bossAI, lastAIUpdateTime, bossMixer, bossAnim, bossListener,
                  bossDamageTimers, playerAttacking, playerLastAttackTime, playerMixer,
                  playerAnim, playerListeners, playerBackupTimers, attackCount, keptCursor,
                  lastTick, playerDodge >>

\* the backup callback with the flag reset dropped
PlayerBackupTimerKeepsFlag(tm) ==
  /\ tm \in playerBackupTimers
  /\ tm.due <= now
  /\ playerBackupTimers' = playerBackupTimers \ {tm}
  /\ lastOp' = "PlayerBackupTimer"
  /\ UNCHANGED << now, st, bossAI, lastAIUpdateTime, bossMixer, bossAnim, bossListener,
                  bossDamageTimers, playerAttacking, playerLastAttackTime, playerMixer,
                  playerAnim, playerListeners, playerDamageTimers, attackCount, keptCursor,
                  lastTick, hist, playerDodge >>

\* the 700 ms backup setTimeout callback of handleMouseClick
PlayerBackupTimer(tm) ==
  /\ tm \in playerBackupTimers
  /\ tm.due <= now
  /\ playerBackupTimers' = playerBackupTimers \ {tm}
  /\ playerAttacking' = FALSE
  /\ playerListeners' = IF playerAttacking THEN playerListeners \ {tm.id} ELSE playerListeners
  /\ hist' = IF playerAttacking
             THEN [hist EXCEPT !.clearedBy = tm.id, !.clearedOwner = hist.flagOwner]
             ELSE hist
  /\ lastOp' = "PlayerBackupTimer"
  /\ UNCHANGED << now, st, bossAI, lastAIUpdateTime, bossMixer, bossAnim, bossListener,
                  bossDamageTimers, playerLastAttackTime, playerMixer, playerAnim,
                  playerDamageTimers, attackCount, keptCursor, lastTick, playerDodge >>

\* the 1200 ms setTimeout callback of triggerBossAttack
BossDamageTimer(due) ==
  /\ due \in bossDamageTimers
  /\ due <= now
  /\ bossDamageTimers' = bossDamageTimers \ {due}
  /\ st' = bossDamageResolve(st)
  /\ lastOp' = IF bossAttackCollides(st.global) THEN "BossDamageOverlap"
               ELSE "BossDamageMiss"
  /\ UNCHANGED << now, bossAI, lastAIUpdateTime, bossMixer, bossAnim, bossListener,
                  playerAttacking, playerLastAttackTime, playerMixer, playerAnim,
                  playerListeners, playerBackupTimers, playerDamageTimers, attackCount, keptCursor,
                  lastTick, hist, playerDodge >>

\* Boss runs: the player walks or stands and never clicks
FrameBoss ==
  \E dt \in BossFrameDeltas, key \in Keys, finB \in BOOLEAN :
    /\ now + dt <= MaxTimeBoss
    /\ Frame(dt, FALSE, 0, key, FALSE, finB)

NextBoss ==
  \/ FrameBoss
  \/ BossSetup
  \/ \E due \in bossDamageTimers : BossDamageTimer(due)

SpecBoss == Init /\ [][NextBoss]_vars

\* Long boss runs: as the boss runs, long enough for the damage callback of
\* a second attack
FrameBossLong ==
  \E dt \in BossFrameDeltas, key \in Keys, finB \in BOOLEAN :
    /\ now + dt <= MaxTimeBossLong
    /\ Frame(dt, FALSE, 0, key, FALSE, finB)

NextBossLong ==
  \/ FrameBossLong
  \/ BossSetup
  \/ \E due \in bossDamageTimers : BossDamageTimer(due)

SpecBossLong == Init /\ [][NextBossLong]_vars

\* Player runs: the player stands and clicks; the boss assets never finish loading
FramePlayer ==
  \E dt \in PlayerFrameDeltas, finP \in BOOLEAN :
    /\ now + dt <= MaxTimePlayer
    /\ Frame(dt, FALSE, 0, "none", finP, FALSE)

NextPlayer ==
  \/ FramePlayer
  \/ PlayerSetup
  \/ MouseClick
  \/ \E due \in playerDamageTimers, dmg \in PlayerDamageValues : PlayerDamageTimer(due, dmg)
  \/ \E tm \in playerBackupTimers : PlayerBackupTimer(tm)

SpecPlayer == Init /\ [][NextPlayer]_vars

\* Player input runs: the pointer may be locked and the mouse turns the
\* camera by half a turn, the player walks, dodges and clicks; the boss
\* assets never finish loading
CameraYaws == {0, Pi}

FramePlayerInput ==
  \E dt \in PlayerFrameDeltas, locked \in BOOLEAN, yaw \in CameraYaws, key \in Keys,
     finP \in BOOLEAN :
    /\ now + dt <= MaxTimeInput
    /\ Frame(dt, locked, yaw, key, finP, FALSE)

NextPlayerInput ==
  \/ FramePlayerInput
  \/ PlayerSetup
  \/ MouseClick
  \/ TriggerDodge
  \/ \E due \in playerDamageTimers, dmg \in PlayerDamageValues : PlayerDamageTimer(due, dmg)
  \/ \E tm \in playerBackupTimers : PlayerBackupTimer(tm)

SpecPlayerInput == Init /\ [][NextPlayerInput]_vars

\* ------------------------------------------------------------ boss gating
\* C1: on every boss root tick the attack-trigger callback is invoked iff
\* the player is within attackRange, the cooldown has elapsed and
\* isAttacking is false; it is then invoked exactly once and isAttacking is
\* true afterwards; it is never invoked on a tick that starts with
\* isAttacking true.
C1_AttackTriggerGating ==
  lastTick.executed =>
    /\ lastTick.triggers \in {0, 1}
    /\ lastTick.triggers = 1 <=>
         (lastTick.inRange /\ lastTick.offCooldown /\ ~lastTick.wasAttacking)
    /\ lastTick.triggers = 1 => lastTick.attackingAfter
    /\ lastTick.wasAttacking => lastTick.triggers = 0

C1_Witness ==
  /\ lastTick.executed
  /\ lastTick.triggers = 1
  /\ lastTick.inRange /\ lastTick.offCooldown /\ ~lastTick.wasAttacking

\* C2: every boss root tick executed between PerformAttack setting
\* isAttacking and the completion clearing it returns RUNNING.
C2_AttackingTickReturnsRunning ==
  (lastTick.executed /\ lastTick.wasAttacking) => lastTick.status = RUNNING

InTrace(leaf) == \E i \in 1..Len(lastTick.trace) : lastTick.trace[i] = leaf

\* C3: while isAttacking is true no tick falls through to the chase branch:
\* TurnTowardsPlayer and MoveTowardsPlayer are not executed, bossPosition
\* and bossRotation are unchanged and currentAction stays 'attack'.
C3_NoChaseWhileAttacking ==
  (lastTick.executed /\ lastTick.wasAttacking) =>
    /\ ~InTrace("turnTowardsPlayer")
    /\ ~InTrace("moveTowardsPlayer")
    /\ lastTick.positionAfter = lastTick.positionBefore
    /\ lastTick.rotationAfter = lastTick.rotationBefore
    /\ lastTick.actionAfter = "attack"

\* C7: for two consecutive boss attacks the later one is triggered at least
\* attackCooldown after the completion signal of the earlier one.
C7_CooldownFromCompletion ==
  hist.bossAttacks >= 2 => hist.bossGap >= bossAI.attackCooldown

C7_Witness ==
  /\ hist.bossAttacks >= 2
  /\ hist.bossGap >= bossAI.attackCooldown
  /\ lastTick.executed /\ lastTick.triggers = 1

\* ----------------------------------------------------------- player attack
\* C5: once a left click has set the player's isAttacking flag, the flag is
\* false no later than 700 ms after that start, whether or not the
\* animation-finished event is delivered: while the flag is set the attack
\* is at most 700 ms old, and at 700 ms its own backup callback is due.
C5_PlayerFlagClearedWithin700 ==
  playerAttacking =>
    /\ DateNow(now) - playerLastAttackTime <= 700
    /\ \E tm \in playerBackupTimers :
         /\ tm.id = hist.flagOwner
         /\ DateNow(tm.due) = playerLastAttackTime + 700

C5_Witness ==
  /\ lastOp = "PlayerBackupTimer"
  /\ ~playerAttacking
  /\ hist.clearedBy = attackCount
  /\ hist.clearedOwner = attackCount
  /\ attackCount > 0
  /\ playerAnim
  /\ DateNow(now) - playerLastAttackTime = 700

\* C6: the flag set by attack k is reset only by attack k's own completion
\* (its finished event or its own backup callback); a backup callback of an
\* earlier attack never clears the flag of a later attack in progress.
C6_FlagResetByOwnAttack == hist.clearedBy = hist.clearedOwner

\* ------------------------------------------------------------------- store
\* Store runs: the operations of the store API and the two damage callbacks
\* are called in any order on the mounted store.  HP arguments range over
\* the values a health can take, damages are non-negative, actors are
\* placed on the z axis.
PlayerHpInputs == {0, 5, MaxPlayerHp}
BossHpInputs == {0, 100, MaxBossHp}
DamageInputs == {0, 69, 119, 2500}
PositionInputs == {Vec(0, 0, 0), Vec(0, 0, 1000), Vec(0, 0, 2000)}
RotationInputs == {0, Pi}
StaminaInputs == {0, 50}

StoreCall(op, s, arg) ==
  /\ hist.storeOps < MaxStoreOps
  /\ st' = s
  /\ lastOp' = op
  /\ hist' = [hist EXCEPT !.storeOps = @ + 1, !.arg = arg, !.hpBefore = st.state.bossHp]
  /\ UNCHANGED << now, bossAI, lastAIUpdateTime, bossMixer, bossAnim, bossListener,
                  bossDamageTimers, playerAttacking, playerLastAttackTime, playerMixer,
                  playerAnim, playerListeners, playerBackupTimers, playerDamageTimers,
                  attackCount, keptCursor, lastTick, playerDodge >>

CallSetBossHp == \E hp \in BossHpInputs : StoreCall("setBossHp", setBossHp(st, hp), hp)

CallApplyDmgToBoss ==
  \E dmg \in DamageInputs : StoreCall("applyDmgToBoss", applyDmgToBoss(st, dmg), dmg)

CallSetPlayerHp == \E hp \in PlayerHpInputs : StoreCall("setPlayerHp", setPlayerHp(st, hp), hp)

CallSetPlayerStamina ==
  \E stamina \in StaminaInputs :
    StoreCall("setPlayerStamina", setPlayerStamina(st, stamina), stamina)

CallToggleDebugMode == StoreCall("toggleDebugMode", toggleDebugMode(st), 0)

CallSetPlayerPosition ==
  \E p \in PositionInputs : StoreCall("setPlayerPosition", setPlayerPosition(st, p), 0)

CallSetPlayerRotation ==
  \E r \in RotationInputs : StoreCall("setPlayerRotation", setPlayerRotation(st, r), 0)

CallSetBossPosition ==
  \E p \in PositionInputs : StoreCall("setBossPosition", setBossPosition(st, p), 0)

CallSetBossRotation ==
  \E r \in RotationInputs : StoreCall("setBossRotation", setBossRotation(st, r), 0)

CallResetGameState == StoreCall("resetGameState", resetGameState(st), 0)

\* the Character damage callback, run on the current store
CallPlayerDamage ==
  \E dmg \in PlayerDamageValues :
    StoreCall(IF playerAttackCollides(st.global) THEN "PlayerDamageOverlap"
              ELSE "PlayerDamageMiss",
              playerDamageResolve(st, dmg), dmg)

\* the Boss damage callback, run on the current store
CallBossDamage ==
  StoreCall(IF bossAttackCollides(st.global) THEN "BossDamageOverlap" ELSE "BossDamageMiss",
            bossDamageResolve(st), ATTACK_DAMAGE)

NextStore ==
  \/ CallSetBossHp
  \/ CallApplyDmgToBoss
  \/ CallSetPlayerHp
  \/ CallSetPlayerStamina
  \/ CallToggleDebugMode
  \/ CallSetPlayerPosition
  \/ CallSetPlayerRotation
  \/ CallSetBossPosition
  \/ CallSetBossRotation
  \/ CallResetGameState
  \/ CallPlayerDamage
  \/ CallBossDamage

SpecStore == Init /\ [][NextStore]_vars

\* C8: for every bossHp in [0, 2000] and every dmg >= bossHp,
\* applyDmgToBoss(dmg) leaves bossHp = 0; after applyDmgToBoss calls with
\* non-negative damage bossHp is never negative and never increases.
C8_ApplyDmgClampsAtZero ==
  lastOp \in {"applyDmgToBoss", "PlayerDamageOverlap"} =>
    /\ st.state.bossHp >= 0
    /\ st.state.bossHp <= hist.hpBefore
    /\ (lastOp = "applyDmgToBoss" /\ hist.arg >= hist.hpBefore) => st.state.bossHp = 0

C8_Witness ==
  /\ lastOp = "applyDmgToBoss"
  /\ hist.hpBefore > 0
  /\ hist.arg > hist.hpBefore
  /\ st.state.bossHp = 0

C11_OverlapAppliesDamage ==
  [][/\ (/\ lastOp' = "BossDamageOverlap"
          /\ bossAttackCollides(st.state)
          /\ st.state.playerHp > 0)
         => st'.state.playerHp = Max(0, st.state.playerHp - ATTACK_DAMAGE)
     /\ (/\ lastOp' = "PlayerDamageOverlap"
          /\ playerAttackCollides(st.state)
          /\ st.state.bossHp > 0)
         => /\ hist'.arg \in MIN_ATTACK_DAMAGE..MAX_ATTACK_DAMAGE
            /\ st'.state.bossHp = Max(st.state.bossHp - hist'.arg, 0)]_vars

\* C12: a damage resolution that fires while the defender's HP is 0 changes
\* no state, for the boss-to-player and for the player-to-boss direction.
C12_NoDamageAtZeroHp ==
  [][/\ (lastOp' \in {"BossDamageOverlap", "BossDamageMiss"} /\ st.state.playerHp = 0)
         => (st' = st /\ bossAI' = bossAI)
     /\ (lastOp' \in {"PlayerDamageOverlap", "PlayerDamageMiss"} /\ st.state.bossHp = 0)
         => (st' = st /\ bossAI' = bossAI)]_vars

C12_Witness ==
  /\ lastOp = "PlayerDamageOverlap"
  /\ hist.hpBefore = 0
  /\ st.state.bossHp = 0
  /\ st.global.bossHp > 0

\* C13: at damage resolution the attack-sphere centre the callback uses is
\* the owner's current position plus the attack-sphere offset rotated by the
\* owner's current yaw, for the boss and for the player; the boss's sphere
\* lies in front of the boss.
C13_AttackSphereRotatedByYaw ==
  /\ lastOp \in {"BossDamageOverlap", "BossDamageMiss"} =>
       bossAttackSpherePosition(st.global) =
         VecAdd(st.state.bossPosition,
                applyYaw(st.state.bossAttackSphereOffset, st.state.bossRotation))
  /\ lastOp \in {"PlayerDamageOverlap", "PlayerDamageMiss"} =>
       playerAttackSpherePosition(st.global) =
         VecAdd(st.state.playerPosition,
                applyYaw(st.state.playerAttackSphereOffset, st.state.playerRotation))

\* C18: after resetGameState(), from any reachable state, every field of the
\* store (playerHp, bossHp, playerStamina, both positions, both rotations,
\* the four hit-sphere descriptors and isDebugMode) equals its default.
C18_ResetRestoresDefaults ==
  [][lastOp' = "resetGameState" => st'.state = defaultGameState]_vars

\* a reset of a store whose earlier calls are still visible in the mirror
C18_Witness ==
  /\ lastOp = "resetGameState"
  /\ st.global.playerHp # MaxPlayerHp
  /\ st.global.bossPosition = Vec(0, 0, 1000)
  /\ st.state = defaultGameState

\* C19: the window mirror is in sync with the store: in every reachable
\* state each mirrored field that damage resolution reads (playerPosition,
\* playerRotation, bossPosition, bossRotation, playerHp, bossHp) equals the
\* store field, after any sequence of setters, applyDmgToBoss, setBossHp
\* and resetGameState.
C19_MirrorInSync ==
  /\ st.global.playerPosition = st.state.playerPosition
  /\ st.global.playerRotation = st.state.playerRotation
  /\ st.global.bossPosition = st.state.bossPosition
  /\ st.global.bossRotation = st.state.bossRotation
  /\ st.global.playerHp = st.state.playerHp
  /\ st.global.bossHp = st.state.bossHp

\* C20: the outcome of an attack is decided from the positions, rotations
\* and HP that are current when the delayed damage callback fires, not from
\* the values at attack start: the defender's HP drops exactly when, at
\* that instant, the attack sphere (owner position plus offset rotated by
\* the owner's yaw) overlaps the defender's collision sphere and the
\* defender is alive; a defender that moved out of overlap takes no damage,
\* one that moved into overlap takes it.
C20_OutcomeFromLiveState ==
  [][LET live == st.state
         bossSphere == VecAdd(live.bossPosition,
                              applyYaw(live.bossAttackSphereOffset, live.bossRotation))
         playerSphere == VecAdd(live.playerPosition,
                                applyYaw(live.playerAttackSphereOffset, live.playerRotation))
         bossOverlap ==
           didSpheresCollide(bossSphere, live.bossAttackSphereRadius,
                             VecAdd(live.playerPosition, live.playerCollisionSphereOffset),
                             live.playerCollisionSphereRadius)
         playerOverlap ==
           didSpheresCollide(playerSphere, live.playerAttackSphereRadius,
                             VecAdd(live.bossPosition, live.bossCollisionSphereOffset),
                             live.bossCollisionSphereRadius)
     IN /\ lastOp' \in {"BossDamageOverlap", "BossDamageMiss"} =>
             st'.state.playerHp =
               IF bossOverlap /\ live.playerHp > 0
               THEN Max(0, live.playerHp - ATTACK_DAMAGE)
               ELSE live.playerHp
        /\ lastOp' \in {"PlayerDamageOverlap", "PlayerDamageMiss"} =>
             st'.state.bossHp =
               IF playerOverlap /\ live.bossHp > 0
               THEN Max(live.bossHp - hist'.arg, 0)
               ELSE live.bossHp]_vars

\* C21: each committed attack (player or boss) schedules exactly one damage
\* resolution, due after the fixed delay; a scheduled resolution leaves the
\* pending set only by firing, at its due time, whatever happens to the
\* attack flag or to either HP in between; the defender's HP changes only
\* when a resolution fires, hence at most once per attack.
C21_OneResolutionPerAttack ==
  [][/\ (lastOp' = "Frame" /\ lastTick'.executed /\ lastTick'.triggers > 0) =>
          /\ now' + BossDamageDelay \notin bossDamageTimers
          /\ bossDamageTimers' = bossDamageTimers \cup {now' + BossDamageDelay}
     /\ lastOp' = "MouseClick" =>
          /\ now + PlayerDamageDelay \notin playerDamageTimers
          /\ playerDamageTimers' = playerDamageTimers \cup {now + PlayerDamageDelay}
     /\ bossDamageTimers' \ bossDamageTimers # {} =>
          (lastOp' = "Frame" /\ lastTick'.executed /\ lastTick'.triggers > 0)
     /\ playerDamageTimers' \ playerDamageTimers # {} => lastOp' = "MouseClick"
     /\ bossDamageTimers \ bossDamageTimers' # {} =>
          /\ lastOp' \in {"BossDamageOverlap", "BossDamageMiss"}
          /\ bossDamageTimers \ bossDamageTimers' = {now}
     /\ playerDamageTimers \ playerDamageTimers' # {} =>
          /\ lastOp' \in {"PlayerDamageOverlap", "PlayerDamageMiss"}
          /\ playerDamageTimers \ playerDamageTimers' = {now}
     /\ st'.state.playerHp # st.state.playerHp =>
          (lastOp' = "BossDamageOverlap" /\ bossDamageTimers' # bossDamageTimers)
     /\ st'.state.bossHp # st.state.bossHp =>
          (lastOp' = "PlayerDamageOverlap" /\ playerDamageTimers' # playerDamageTimers)]_vars

\* C22: on every frame the delta that advances player and boss position and
\* rotation is capped at 100 ms: whatever the raw frame delta, the player
\* moves at most 5 units/s x 0.1 s, the boss at most moveSpeed x 0.1 s and
\* turns at most turnSpeed x 0.1 s.
C22_DisplacementCapped ==
  [][lastOp' = "Frame" =>
       LET playerStep == (PlayerSpeed * SafeDeltaCap) \div 1000
           bossStep == (bossAI.moveSpeed * SafeDeltaCap) \div 1000
           bossTurn == (bossAI.turnSpeed * SafeDeltaCap) \div 1000
       IN /\ DistSq(st'.state.playerPosition, st.state.playerPosition)
               <= playerStep * playerStep
          /\ DistSq(st'.state.bossPosition, st.state.bossPosition) <= bossStep * bossStep
          /\ Abs(st'.state.bossRotation - st.state.bossRotation) <= bossTurn]_vars

\* ------------------------------------------------------------ cadence runs
\* Cadence runs: frames arrive at 60 or 30 frames per second, in any mix;
\* the player stands, and its HP is set to a value a health can take at any
\* moment (standing in for the hits of a longer fight).
FrameCadence ==
  \E dt \in CadenceFrameDeltas :
    /\ now + dt <= MaxTimeCadence
    /\ Frame(dt, FALSE, 0, "none", FALSE, FALSE)

NextCadence ==
  \/ FrameCadence
  \/ CallSetPlayerHp

SpecCadence == Init /\ [][NextCadence]_vars

\* C23: any two successive executions of the boss behavior tree are at
\* least the AI update interval (50 ms) of wall-clock time apart, however
\* many frames pass in between, and the tree is executed only while
\* playerHp > 0.
C23_TicksThrottled ==
  [][lastOp' = "Frame" =>
       /\ lastTick'.executed =>
            /\ lastTick'.execGap = -1 \/ lastTick'.execGap >= AI_UPDATE_INTERVAL
            /\ lastTick'.playerHp > 0
            /\ st.state.playerHp > 0
       /\ st.state.playerHp <= 0 =>
            /\ ~lastTick'.executed
            /\ bossAI' = bossAI
            /\ st'.state.bossPosition = st.state.bossPosition
            /\ st'.state.bossRotation = st.state.bossRotation]_vars

\* a tree execution four 16 ms frames after the previous one
C23_Witness ==
  /\ lastTick.executed
  /\ lastTick.execGap = 64
  /\ hist.storeOps > 0

\* C24: the delta handed to the boss's leaves stands for the AI update
\* interval, so the boss covers moveSpeed per unit of wall-clock time at every
\* frame rate: on a tick that moves the boss, the step equals moveSpeed times
\* the wall-clock time since the previous tick (to the rounding of one
\* hundredth of a unit), the same at 16 ms and at 33 ms frames.
C24_SpeedIndependentOfFrameRate ==
  (lastTick.executed /\ lastTick.execGap >= 0
   /\ lastTick.positionAfter # lastTick.positionBefore) =>
    LET step == Abs(lastTick.positionAfter.z - lastTick.positionBefore.z)
    IN Abs(1000 * step - bossAI.moveSpeed * lastTick.execGap) <= 1000

\* ---------------------------------------------------------- collision runs
\* Collision runs: didSpheresCollide is called once on centres whose
\* distances are whole numbers (0, 3, 4, 5, 12, 13, ...) and on whole radii.
CenterInputs == {Vec(x, y, z) : x \in {0, 3}, y \in {0, 4}, z \in {0, 12}}
RadiusInputs == {0, 1, 2, 3, 4, 6, 7}

CallDidSpheresCollide ==
  \E c1 \in CenterInputs, c2 \in CenterInputs, r1 \in RadiusInputs, r2 \in RadiusInputs :
    \E call \in {didSpheresCollideCall(c1, r1, c2, r2)} :
      /\ lastOp = "Init"
      /\ lastTick' = [ executed |-> FALSE,
                       sphere1Center |-> c1, sphere1Radius |-> r1,
                       sphere2Center |-> c2, sphere2Radius |-> r2,
                       collides |-> call.collides,
                       sphere1CenterAfter |-> call.sphere1Center,
                       sphere2CenterAfter |-> call.sphere2Center ]
      /\ lastOp' = "didSpheresCollide"
      /\ UNCHANGED << now, st, bossAI, lastAIUpdateTime, bossMixer, bossAnim, bossListener,
                      bossDamageTimers, playerAttacking, playerLastAttackTime, playerMixer,
                      playerAnim, playerListeners, playerBackupTimers, playerDamageTimers,
                      attackCount, keptCursor, hist, playerDodge >>

SpecCollision == Init /\ [][CallDidSpheresCollide]_vars

\* the least whole number whose square reaches n: the Euclidean distance
\* rounded up
RECURSIVE CeilSqrtFrom(_, _)
CeilSqrtFrom(n, k) == IF k * k >= n THEN k ELSE CeilSqrtFrom(n, k + 1)

\* C25: the sphere overlap test is closed at the boundary: for all centres
\* and non-negative radii it is true iff the Euclidean distance between the
\* centres is <= rA + rB; a distance equal to rA + rB overlaps, any larger
\* distance does not (5 apart: radii summing to 5 or 6 overlap, to 4 do not).
C25_OverlapClosedAtBoundary ==
  lastOp = "didSpheresCollide" =>
    LET distanceSq == DistSq(lastTick.sphere1Center, lastTick.sphere2Center)
        radii == lastTick.sphere1Radius + lastTick.sphere2Radius
    IN /\ lastTick.collides <=> (CeilSqrtFrom(distanceSq, 0) <= radii)
       /\ distanceSq = radii * radii => lastTick.collides
       /\ distanceSq >= (radii + 1) * (radii + 1) => ~lastTick.collides
       /\ distanceSq = 25 => (lastTick.collides <=> radii >= 5)

\* centres 5 apart with radii 2 and 3
C25_Witness ==
  /\ lastOp = "didSpheresCollide"
  /\ lastTick.sphere1Center = Vec(0, 0, 0)
  /\ lastTick.sphere2Center = Vec(3, 4, 0)
  /\ lastTick.sphere1Radius = 2
  /\ lastTick.sphere2Radius = 3
  /\ lastTick.collides

\* C26: the sphere overlap test is symmetric and has no side effect:
\* didSpheresCollide(A, rA, B, rB) = didSpheresCollide(B, rB, A, rA), and
\* neither argument vector is modified by the call.
C26_OverlapSymmetricAndPure ==
  lastOp = "didSpheresCollide" =>
    /\ lastTick.collides =
         didSpheresCollideCall(lastTick.sphere2Center, lastTick.sphere2Radius,
                               lastTick.sphere1Center, lastTick.sphere1Radius).collides
    /\ lastTick.sphere1CenterAfter = lastTick.sphere1Center
    /\ lastTick.sphere2CenterAfter = lastTick.sphere2Center

\* a call on two different spheres that overlap
C26_Witness ==
  /\ lastOp = "didSpheresCollide"
  /\ lastTick.sphere1Center = Vec(3, 0, 12)
  /\ lastTick.sphere2Center = Vec(0, 4, 0)
  /\ lastTick.sphere1Radius = 7
  /\ lastTick.sphere2Radius = 6
  /\ lastTick.collides
  /\ lastTick.sphere1CenterAfter = Vec(3, 0, 12)

\* C27: the boss's lastAttackTime is written only by the performAttack
\* leaf when it starts an attack and by the attack-finished callback, both
\* with the current Date.now(); attackCooldown keeps its initial value; no
\* other tick, leaf, store operation or damage callback changes either, and
\* lastAttackTime never decreases.
C27_CooldownTimerOwnership ==
  [][/\ bossAI'.attackCooldown = initBossAIState.attackCooldown
     /\ bossAI'.lastAttackTime >= bossAI.lastAttackTime
     /\ bossAI'.lastAttackTime # bossAI.lastAttackTime =>
          /\ lastOp' = "Frame"
          /\ bossAI'.lastAttackTime = DateNow(now')
          /\ \/ (lastTick'.executed /\ lastTick'.triggers > 0
                  /\ InTrace("performAttack")')
             \/ (bossMixer /\ bossAnim /\ bossListener
                 /\ hist'.bossFinished = DateNow(now'))]_vars

\* the finished callback has just stamped lastAttackTime
C27_Witness ==
  /\ lastOp = "Frame"
  /\ hist.bossFinished = DateNow(now)
  /\ bossAI.lastAttackTime = DateNow(now)
  /\ ~bossAI.isAttacking
  /\ hist.bossAttacks >= 1

\* --------------------------------------------------------------- leaf runs
\* Leaf runs: one leaf of the boss tree is executed once on a store whose
\* boss and player stand on a common axis (so that the direction between
\* them is an axis direction), with the scaled delta of a 16 ms, a 33 ms or
\* a 200 ms frame.
LeafBossPositions ==
  {Vec(0, 0, 2000), Vec(0, 0, 1100), Vec(0, 0, 1001), Vec(0, 0, 1000), Vec(0, 0, 960),
   Vec(0, 0, -1500), Vec(1200, 0, 0), Vec(-900, 0, 0), Vec(0, 0, 0)}
LeafPlayerPositions == {Vec(0, 0, 0), Vec(0, 300, 0), Vec(0, 0, 200)}
LeafRotations == {0, 50, 144, 1643, Pi, -1500, -Pi, 4000}
LeafDeltas == {scaledDelta(16), scaledDelta(33), scaledDelta(200)}

CallLeaf(leaf) ==
  /\ lastOp = "Init"
  /\ \E bossPosition \in LeafBossPositions, playerPosition \in LeafPlayerPositions,
        bossRotation \in LeafRotations, isAttacking \in BOOLEAN, delta \in LeafDeltas :
       LET gameState == [defaultGameState EXCEPT !.bossPosition = bossPosition,
                                                  !.playerPosition = playerPosition,
                                                  !.bossRotation = bossRotation]
           store == [state |-> gameState,
                     global |-> [initialGlobalState EXCEPT !.bossPosition = bossPosition,
                                                           !.playerPosition = playerPosition,
                                                           !.bossRotation = bossRotation]]
           ai == [initBossAIState EXCEPT !.isAttacking = isAttacking,
                                         !.currentAction = IF isAttacking THEN "attack" ELSE "idle"]
       IN \E r \in {LeafExecute(leaf,
                                [ gameState |-> gameState, st |-> store, ai |-> ai,
                                  cursor |-> FreshCursors, triggers |-> 0, trace |-> << >>,
                                  delta |-> delta, dateNow |-> DateNow(now),
                                  statuses |-> << >> ])} :
            /\ bossPosition.x = playerPosition.x \/ bossPosition.z = playerPosition.z
            /\ lastTick' = [ executed |-> FALSE,
                             leaf |-> leaf,
                             delta |-> delta,
                             storeBefore |-> store,
                             aiBefore |-> ai,
                             status |-> r.status,
                             storeAfter |-> r.w.st,
                             aiAfter |-> r.w.ai,
                             triggers |-> r.w.triggers ]
            /\ lastOp' = "CallLeaf"
            /\ UNCHANGED << now, st, bossAI, lastAIUpdateTime, bossMixer, bossAnim, bossListener,
                            bossDamageTimers, playerAttacking, playerLastAttackTime, playerMixer,
                            playerAnim, playerListeners, playerBackupTimers, playerDamageTimers,
                            attackCount, keptCursor, hist, playerDodge >>

CallInAttackRange == CallLeaf("inAttackRange")

CallTurnTowardsPlayer == CallLeaf("turnTowardsPlayer")

CallMoveTowardsPlayer == CallLeaf("moveTowardsPlayer")

NextLeaves ==
  \/ CallInAttackRange
  \/ CallTurnTowardsPlayer
  \/ CallMoveTowardsPlayer

SpecLeaves == Init /\ [][NextLeaves]_vars

PlanarDistSq(a, b) == (a.x - b.x) * (a.x - b.x) + (a.z - b.z) * (a.z - b.z)

\* C28: MoveTowardsPlayer: if isAttacking it returns FAILURE and changes
\* nothing; otherwise, if the boss is within attackRange, it sets
\* currentAction = 'idle', leaves bossPosition unchanged and returns SUCCESS;
\* otherwise it moves the boss towards the player by exactly
\* moveSpeed x delta along the planar direction, leaves the boss's y
\* unchanged, sets currentAction = 'moving' and returns RUNNING.
C28_MoveTowardsPlayer ==
  (lastOp = "CallLeaf" /\ lastTick.leaf = "moveTowardsPlayer") =>
    LET before == lastTick.storeBefore.state
        after == lastTick.storeAfter.state
        ai == lastTick.aiBefore
        step == (ai.moveSpeed * lastTick.delta) \div 10000
        within == distanceToPlayerWithin(before.bossPosition, before.playerPosition,
                                         ai.attackRange)
    IN IF ai.isAttacking
       THEN /\ lastTick.status = FAILURE
            /\ lastTick.storeAfter = lastTick.storeBefore
            /\ lastTick.aiAfter = ai
       ELSE IF within
       THEN /\ lastTick.status = SUCCESS
            /\ lastTick.aiAfter = [ai EXCEPT !.currentAction = "idle"]
            /\ lastTick.storeAfter = lastTick.storeBefore
       ELSE /\ lastTick.status = RUNNING
            /\ lastTick.aiAfter = [ai EXCEPT !.currentAction = "moving"]
            /\ after = [before EXCEPT !.bossPosition = after.bossPosition]
            /\ after.bossPosition.y = before.bossPosition.y
            /\ DistSq(after.bossPosition, before.bossPosition) = step * step
            /\ LET d == Abs(before.bossPosition.x - before.playerPosition.x)
                          + Abs(before.bossPosition.z - before.playerPosition.z)
               IN /\ PlanarDistSq(before.bossPosition, before.playerPosition) = d * d
                  /\ PlanarDistSq(after.bossPosition, before.playerPosition)
                       = (d - step) * (d - step)
                  /\ step <= d

\* a moving step of 0.34 units from 11 units away
C28_Witness ==
  /\ lastOp = "CallLeaf"
  /\ lastTick.leaf = "moveTowardsPlayer"
  /\ lastTick.status = RUNNING
  /\ lastTick.storeBefore.state.bossPosition = Vec(0, 0, 1100)
  /\ lastTick.storeBefore.state.playerPosition = Vec(0, 0, 0)
  /\ lastTick.delta = scaledDelta(33)
  /\ lastTick.storeAfter.state.bossPosition = Vec(0, 0, 1066)

\* C29: TurnTowardsPlayer rotates the boss yaw towards the bearing to the
\* player along the shortest signed angular path, by at most
\* turnSpeed x delta and never past the target (the absolute angular
\* difference after the step is not larger than before), sets
\* currentAction = 'turning', and returns SUCCESS iff the angular
\* difference measured before the step is below 0.1 rad, else RUNNING.
C29_TurnTowardsPlayer ==
  (lastOp = "CallLeaf" /\ lastTick.leaf = "turnTowardsPlayer") =>
    LET before == lastTick.storeBefore.state
        after == lastTick.storeAfter.state
        bearing == angleToFacePlayer(before.bossPosition, before.playerPosition)
        diffBefore == wrapAngle(bearing - before.bossRotation)
        diffAfter == wrapAngle(bearing - after.bossRotation)
        turned == after.bossRotation - before.bossRotation
        most == (lastTick.aiBefore.turnSpeed * lastTick.delta) \div 10000
    IN /\ Abs(turned) <= most
       /\ turned # 0 => Sign(turned) = Sign(diffBefore)
       /\ Abs(diffAfter) = Abs(diffBefore) - Abs(turned)
       /\ Abs(diffAfter) <= Abs(diffBefore)
       /\ Abs(turned) = most \/ diffAfter = 0
       /\ lastTick.aiAfter.currentAction = "turning"
       /\ lastTick.status \in {SUCCESS, RUNNING}
       /\ lastTick.status = SUCCESS <=> Abs(diffBefore) < 100

\* a turn from 0.05 rad off the bearing that lands on the bearing and reports
\* SUCCESS, the step being cut to the remaining difference
C29_Witness ==
  /\ lastOp = "CallLeaf"
  /\ lastTick.leaf = "turnTowardsPlayer"
  /\ lastTick.storeBefore.state.bossPosition = Vec(0, 0, -1500)
  /\ lastTick.storeBefore.state.playerPosition = Vec(0, 0, 0)
  /\ lastTick.storeBefore.state.bossRotation = 50
  /\ lastTick.delta = scaledDelta(33)
  /\ lastTick.storeAfter.state.bossRotation = 0
  /\ lastTick.status = SUCCESS

\* C30: InAttackRange returns SUCCESS iff the planar (XZ) distance between
\* boss and player is at most attackRange, whatever the difference of the
\* two y coordinates, and it agrees with the in-range test that
\* MoveTowardsPlayer uses to stop moving.
C30_InAttackRangePlanar ==
  (lastOp = "CallLeaf" /\ lastTick.leaf = "inAttackRange") =>
    LET before == lastTick.storeBefore.state
        range == lastTick.aiBefore.attackRange
        stops == moveTowardsPlayer(
                   [ gameState |-> before, st |-> lastTick.storeBefore,
                     ai |-> [lastTick.aiBefore EXCEPT !.isAttacking = FALSE],
                     cursor |-> FreshCursors, triggers |-> 0, trace |-> << >>,
                     delta |-> lastTick.delta, dateNow |-> DateNow(now),
                     statuses |-> << >> ]).status = SUCCESS
    IN /\ lastTick.status \in {SUCCESS, FAILURE}
       /\ lastTick.status = SUCCESS
            <=> PlanarDistSq(before.bossPosition, before.playerPosition) <= range * range
       /\ lastTick.status = SUCCESS <=> stops
       /\ lastTick.storeAfter = lastTick.storeBefore
       /\ lastTick.aiAfter = lastTick.aiBefore

\* ------------------------------------------------------------ player input
\* Two-attacker runs: the player stands and clicks while the boss closes in
\* and attacks; both attack animations may end in any frame
FrameBoth ==
  \E dt \in PlayerFrameDeltas, finP \in BOOLEAN, finB \in BOOLEAN :
    /\ now + dt <= MaxTimeBoth
    /\ Frame(dt, FALSE, 0, "none", finP, finB)

NextBoth ==
  \/ FrameBoth
  \/ BossSetup
  \/ PlayerSetup
  \/ MouseClick
  \/ \E due \in bossDamageTimers : BossDamageTimer(due)
  \/ \E due \in playerDamageTimers, dmg \in PlayerDamageValues : PlayerDamageTimer(due, dmg)
  \/ \E tm \in playerBackupTimers : PlayerBackupTimer(tm)

SpecBoth == Init /\ [][NextBoth]_vars

\* C31: while the player's attack is in progress (isAttacking true before
\* and after the step) no step changes playerPosition or playerRotation, in
\* the store or in the mirror.
C31_LockedWhileAttacking ==
  [][(playerAttacking /\ playerAttacking') =>
       /\ st'.state.playerPosition = st.state.playerPosition
       /\ st'.global.playerPosition = st.global.playerPosition
       /\ st'.state.playerRotation = st.state.playerRotation
       /\ st'.global.playerRotation = st.global.playerRotation]_vars

\* C32: a player attack starts only when the player is neither attacking
\* nor dodging and at least 600 ms have passed since the previous attack
\* start (the cooldown stamp is written by attack starts only, so two
\* consecutive starts are at least 600 ms apart); while an attack is in
\* progress a click starts nothing: no stamp, no timer and no listener is
\* added.
C32_PlayerAttackGating ==
  [][/\ attackCount' # attackCount =>
          /\ attackCount' = attackCount + 1
          /\ ~playerAttacking
          /\ ~playerDodge.isDodging
          /\ attackCount > 0 => DateNow(now') - playerLastAttackTime >= 600
          /\ playerLastAttackTime' = DateNow(now')
          /\ playerAttacking'
     /\ playerLastAttackTime' # playerLastAttackTime => attackCount' # attackCount
     /\ playerAttacking =>
          /\ lastOp' # "MouseClick"
          /\ attackCount' = attackCount
          /\ playerLastAttackTime' = playerLastAttackTime
          /\ playerDamageTimers' \subseteq playerDamageTimers
          /\ playerBackupTimers' \subseteq playerBackupTimers
          /\ playerListeners' \subseteq playerListeners]_vars

\* the second attack starts exactly 600 ms after the first
C32_Witness ==
  /\ lastOp = "MouseClick"
  /\ attackCount = 2
  /\ now = 600
  /\ playerLastAttackTime = DateNow(600)
  /\ playerAttacking

\* C33: at most one delayed damage callback is pending per attacker: a
\* player attack starts only when no 500 ms player callback is pending, a
\* boss attack is triggered only when no 1200 ms boss callback is pending,
\* whenever the attack animations end.
C33_OnePendingDamagePerAttacker ==
  [][/\ Cardinality(playerDamageTimers') <= 1
     /\ Cardinality(bossDamageTimers') <= 1
     /\ attackCount' # attackCount => playerDamageTimers = {}
     /\ (lastOp' = "Frame" /\ lastTick'.executed /\ lastTick'.triggers > 0)
          => bossDamageTimers = {}]_vars

\* the boss's second attack has just been triggered, the player's second
\* or third attack is resolving: one callback pending for each
C33_Witness ==
  /\ lastOp = "Frame"
  /\ lastTick.executed
  /\ lastTick.triggers > 0
  /\ hist.bossAttacks = 2
  /\ bossDamageTimers = {now + BossDamageDelay}
  /\ attackCount >= 2
  /\ Cardinality(playerDamageTimers) = 1

\* --------------------------------------------------------------- game over
\* Felled-boss runs: the long boss runs, in which at any moment the player's
\* blows may have brought bossHp to 0 (the remaining HP taken by one
\* applyDmgToBoss call)
BossFelled ==
  /\ st.state.bossHp > 0
  /\ StoreCall("applyDmgToBoss", applyDmgToBoss(st, st.state.bossHp), st.state.bossHp)

NextFelled ==
  \/ FrameBossLong
  \/ BossSetup
  \/ \E due \in bossDamageTimers : BossDamageTimer(due)
  \/ BossFelled

SpecFelled == Init /\ [][NextFelled]_vars

\* C34: once bossHp is 0 the boss triggers no new attack and playerHp does
\* not decrease.
C34_FelledBossIsHarmless ==
  [][st.state.bossHp = 0 =>
       /\ ~(lastOp' = "Frame" /\ lastTick'.executed /\ lastTick'.triggers > 0)
       /\ st'.state.playerHp >= st.state.playerHp]_vars

\* Dying-player runs: the long boss runs, in which at any moment the boss's
\* earlier hits may have left the player one hit from death (the HP lost so
\* far written by one setPlayerHp call)
PlayerWounded ==
  /\ st.state.playerHp = MaxPlayerHp
  /\ StoreCall("setPlayerHp", setPlayerHp(st, ATTACK_DAMAGE), ATTACK_DAMAGE)

NextDying ==
  \/ FrameBossLong
  \/ BossSetup
  \/ \E due \in bossDamageTimers : BossDamageTimer(due)
  \/ PlayerWounded

SpecDying == Init /\ [][NextDying]_vars

\* C35: from a state in which playerHp is 0, no step other than
\* resetGameState changes playerHp, executes a boss behaviour-tree tick,
\* triggers a boss attack or changes bossPosition or bossRotation.
C35_DeadPlayerFreezesBoss ==
  [][(st.state.playerHp = 0 /\ lastOp' # "resetGameState") =>
       /\ st'.state.playerHp = 0
       /\ st'.global.playerHp = 0
       /\ ~(lastOp' = "Frame" /\ lastTick'.executed)
       /\ bossDamageTimers' \subseteq bossDamageTimers
       /\ bossAI'.isAttacking => bossAI.isAttacking
       /\ st'.state.bossPosition = st.state.bossPosition
       /\ st'.state.bossRotation = st.state.bossRotation
       /\ st'.global.bossPosition = st.global.bossPosition
       /\ st'.global.bossRotation = st.global.bossRotation]_vars

\* the boss's hit has killed the player, and two seconds of frames later
\* the boss has neither ticked nor moved
C35_Witness ==
  /\ st.state.playerHp = 0
  /\ lastOp = "Frame"
  /\ ~lastTick.executed
  /\ hist.lastExec >= 0
  /\ now - hist.lastExec >= 2000
  /\ hist.bossAttacks = 1

\* ------------------------------------------------------------ turn and move
\* C36: in the tree as the Boss frame callback runs it, TurnTowardsPlayer
\* never returns SUCCESS on the snapshot a tick hands it, a tick that runs
\* it does not go on to MoveTowardsPlayer, and no tick changes both
\* bossRotation and bossPosition.
C36_TurnOrMove ==
  [][(lastOp' = "Frame" /\ lastTick'.executed) =>
       /\ InTrace("turnTowardsPlayer")' =>
            /\ turnTowardsPlayer(
                  [ gameState |-> st.state, st |-> st, ai |-> bossAI,
                    cursor |-> FreshCursors, triggers |-> 0, trace |-> << >>,
                    delta |-> 0, dateNow |-> DateNow(now'),
                    statuses |-> << >> ]).status = RUNNING
            /\ ~InTrace("moveTowardsPlayer")'
            /\ lastTick'.status = RUNNING
            /\ st'.state.bossPosition = st.state.bossPosition
       /\ ~(/\ st'.state.bossRotation # st.state.bossRotation
            /\ st'.state.bossPosition # st.state.bossPosition)
       /\ ~(/\ st'.global.bossRotation # st.global.bossRotation
            /\ st'.global.bossPosition # st.global.bossPosition)]_vars

\* a tick that ran TurnTowardsPlayer: the yaw changed, the position did not
C36_Witness ==
  /\ lastOp = "Frame"
  /\ lastTick.executed
  /\ InTrace("turnTowardsPlayer")
  /\ lastTick.status = RUNNING
  /\ lastTick.rotationAfter # lastTick.rotationBefore
  /\ lastTick.positionAfter = lastTick.positionBefore

\* -------------------------------------------------------- bare composites
\* Composite runs: a Selector and a Sequence over three leaves are kept
\* across ticks; every tick hands the leaves the statuses they answer.
Statuses3 == [1..3 -> {SUCCESS, FAILURE, RUNNING}]

compositeTick(n, statuses, cursor) ==
  Execute(n,
          [ gameState |-> defaultGameState, st |-> [state |-> defaultGameState,
                                                    global |-> initialGlobalState],
            ai |-> initBossAIState, cursor |-> cursor, triggers |-> 0, trace |-> << >>,
            delta |-> 0, dateNow |-> 0, statuses |-> statuses ])

TickComposite(n) ==
  \E statuses \in Statuses3 :
    \E r \in {compositeTick(n, statuses, keptCursor)} :
      /\ keptCursor' = r.w.cursor
      /\ lastTick' = [ executed |-> FALSE,
                       node |-> n,
                       statuses |-> statuses,
                       status |-> r.status,
                       trace |-> r.w.trace,
                       cursorBefore |-> keptCursor[n],
                       cursorAfter |-> r.w.cursor[n] ]
      /\ lastOp' = "TickComposite"
      /\ UNCHANGED << now, st, bossAI, lastAIUpdateTime, bossMixer, bossAnim, bossListener,
                      bossDamageTimers, playerAttacking, playerLastAttackTime, playerMixer,
                      playerAnim, playerListeners, playerBackupTimers, playerDamageTimers,
                      attackCount, hist, playerDodge >>

TickSelector == TickComposite("selector")

TickSequence == TickComposite("sequence")

NextComposite ==
  \/ TickSelector
  \/ TickSequence

SpecComposite == Init /\ [][NextComposite]_vars

\* the children a tick ran are the consecutive ones from the cursor on
RanFromCursor(n) ==
  /\ Len(lastTick.trace) >= 1
  /\ \A i \in 1..Len(lastTick.trace) :
       /\ lastTick.cursorBefore + i <= Len(Children(n))
       /\ lastTick.trace[i] = Children(n)[lastTick.cursorBefore + i]

\* C15: a Selector that keeps its cursor runs its children in increasing
\* order from the remembered cursor, never one before it; the first RUNNING
\* child ends the tick with RUNNING and the cursor on that child; a SUCCESS
\* ends it with SUCCESS and cursor 0; a FAILURE moves on to the next child
\* in the same tick; if every remaining child fails the tick returns FAILURE
\* with cursor 0.  With [FAILURE, RUNNING, SUCCESS] the first tick returns
\* RUNNING without running child 3; if child 2 then answers SUCCESS the
\* tick returns SUCCESS and the cursor is 0.
C15_SelectorCursor ==
  (lastOp = "TickComposite" /\ lastTick.node = "selector") =>
    LET c == lastTick.cursorBefore
        ran == Len(lastTick.trace)
        answers == lastTick.statuses
        deciding == {j \in (c + 1)..3 : answers[j] # FAILURE}
    IN /\ RanFromCursor("selector")
       /\ \A i \in 1..(ran - 1) : answers[c + i] = FAILURE
       /\ IF deciding = {}
          THEN lastTick.status = FAILURE /\ lastTick.cursorAfter = 0 /\ ran = 3 - c
          ELSE LET j == CHOOSE x \in deciding : \A y \in deciding : x <= y
               IN /\ ran = j - c
                  /\ lastTick.status = answers[j]
                  /\ lastTick.cursorAfter = IF answers[j] = RUNNING THEN j - 1 ELSE 0
       /\ (c = 0 /\ answers = <<FAILURE, RUNNING, SUCCESS>>) =>
            /\ lastTick.status = RUNNING
            /\ lastTick.trace = <<"child1", "child2">>
            /\ lastTick.cursorAfter = 1

C15_Witness ==
  /\ lastOp = "TickComposite"
  /\ lastTick.node = "selector"
  /\ lastTick.cursorBefore = 1
  /\ lastTick.statuses[2] = SUCCESS
  /\ lastTick.trace = <<"child2">>
  /\ lastTick.status = SUCCESS
  /\ lastTick.cursorAfter = 0

\* C16: a Sequence that keeps its cursor runs its children in increasing
\* order from the remembered cursor; a SUCCESS moves on to the next child;
\* the first RUNNING child ends the tick with RUNNING and the cursor on that
\* child; a FAILURE ends it with FAILURE, cursor 0 and no later child run;
\* when every child has succeeded the tick returns SUCCESS with cursor 0.
\* With [SUCCESS, FAILURE, SUCCESS] a tick returns FAILURE after running
\* exactly the first two children.
C16_SequenceCursor ==
  (lastOp = "TickComposite" /\ lastTick.node = "sequence") =>
    LET c == lastTick.cursorBefore
        ran == Len(lastTick.trace)
        answers == lastTick.statuses
        deciding == {j \in (c + 1)..3 : answers[j] # SUCCESS}
    IN /\ RanFromCursor("sequence")
       /\ \A i \in 1..(ran - 1) : answers[c + i] = SUCCESS
       /\ IF deciding = {}
          THEN lastTick.status = SUCCESS /\ lastTick.cursorAfter = 0 /\ ran = 3 - c
          ELSE LET j == CHOOSE x \in deciding : \A y \in deciding : x <= y
               IN /\ ran = j - c
                  /\ lastTick.status = answers[j]
                  /\ lastTick.cursorAfter = IF answers[j] = RUNNING THEN j - 1 ELSE 0
       /\ (c = 0 /\ answers = <<SUCCESS, FAILURE, SUCCESS>>) =>
            /\ lastTick.status = FAILURE
            /\ lastTick.trace = <<"child1", "child2">>
            /\ lastTick.cursorAfter = 0

C16_Witness ==
  /\ lastOp = "TickComposite"
  /\ lastTick.node = "sequence"
  /\ lastTick.cursorBefore = 0
  /\ lastTick.statuses = <<SUCCESS, FAILURE, SUCCESS>>
  /\ lastTick.trace = <<"child1", "child2">>
  /\ lastTick.status = FAILURE
  /\ lastTick.cursorAfter = 0

\* C17: rebuilding the boss tree on every AI tick and building it once and
\* keeping its cursors are equivalent: every tick returns the same status
\* and leaves the same boss position, rotation, isAttacking, lastAttackTime
\* and currentAction.
C17_KeptTreeEquivalent == lastTick.executed => lastTick.keptAgrees

\* ------------------------------------------------------- boss, unbounded time
\* The clocks of the source never stop.  Only differences of clock values
\* are ever read, so when the bounded clock is exhausted every time stamp is
\* moved back by the current clock value; a stamp older than that keeps an
\* age of Epoch (>= attackCooldown), which the cooldown test cannot tell
\* from its true age.
ShiftBack(stamp, by) == IF stamp < 0 THEN stamp ELSE Max(stamp - by, 0)

RebaseClock ==
  /\ now > 0
  /\ \A dt \in BossFrameDeltas : now + dt > MaxTimeBoss
  /\ \A d \in Deadlines : d > now
  /\ now' = 0
  /\ lastAIUpdateTime' = ShiftBack(lastAIUpdateTime, now)
  /\ bossAI' = [bossAI EXCEPT !.lastAttackTime = ShiftBack(@, now)]
  /\ playerLastAttackTime' = ShiftBack(playerLastAttackTime, now)
  /\ bossDamageTimers' = {d - now : d \in bossDamageTimers}
  /\ playerDamageTimers' = {d - now : d \in playerDamageTimers}
  /\ playerBackupTimers' = {[id |-> tm.id, due |-> tm.due - now] : tm \in playerBackupTimers}
  /\ hist' = [hist EXCEPT !.bossFinished = ShiftBack(@, now), !.bossStart = ShiftBack(@, now),
                          !.lastExec = ShiftBack(@, now)]
  /\ lastOp' = "RebaseClock"
  /\ playerDodge' = [playerDodge EXCEPT !.dodgeStartTime = ShiftBack(@, now)]
  /\ UNCHANGED << st, bossMixer, bossAnim, bossListener, playerAttacking, playerMixer,
                  playerAnim, playerListeners, attackCount, keptCursor, lastTick >>

\* a frame in which the boss attack animation does not end
FrameBossIdle ==
  \E dt \in BossFrameDeltas :
    /\ now + dt <= MaxTimeBoss
    /\ Frame(dt, FALSE, 0, "none", FALSE, FALSE)

\* a frame in which mixer.update ends the boss attack animation
FrameBossFinish ==
  \E dt \in BossFrameDeltas :
    /\ now + dt <= MaxTimeBoss
    /\ bossMixer /\ bossAnim
    /\ Frame(dt, FALSE, 0, "none", FALSE, TRUE)

BossDamageFires == \E due \in bossDamageTimers : BossDamageTimer(due)

NextBossLive ==
  \/ FrameBossIdle
  \/ FrameBossFinish
  \/ BossSetup
  \/ BossDamageFires
  \/ RebaseClock

\* Scheduling: frames keep coming, a playing attack animation ends (its
\* 'finished' event is delivered), due timers fire, the assets finish loading.
FairSpecBoss ==
  /\ Init
  /\ [][NextBossLive]_vars
  /\ SF_vars(FrameBossIdle)
  /\ SF_vars(FrameBossFinish)
  /\ WF_vars(BossSetup)
  /\ WF_vars(BossDamageFires)
  /\ WF_vars(RebaseClock)

\* Chase runs: the player stands at the origin; frames keep coming until the
\* bounded clock is exhausted, due timers fire, the assets finish loading.
NextChase ==
  \/ FrameBossIdle
  \/ FrameBossFinish
  \/ BossSetup
  \/ BossDamageFires

FairSpecChase ==
  /\ Init
  /\ [][NextChase]_vars
  /\ SF_vars(FrameBossIdle)
  /\ SF_vars(FrameBossFinish)
  /\ WF_vars(BossSetup)
  /\ WF_vars(BossDamageFires)

\* C14: from the match-start state with a stationary player, every AI tick
\* while the distance exceeds attackRange runs moveTowardsPlayer, which
\* returns RUNNING and strictly decreases the boss-player distance; by the
\* first tick within attackRange an attack has been triggered; and an attack
\* is eventually triggered.
C14_TickCloses ==
  (lastTick.executed /\ ~lastTick.inRange) =>
    /\ InTrace("moveTowardsPlayer")
    /\ lastTick.status = RUNNING
    /\ DistSq(lastTick.positionAfter, st.state.playerPosition)
         < DistSq(lastTick.positionBefore, st.state.playerPosition)

C14_TickAttacks ==
  (lastTick.executed /\ lastTick.inRange) => hist.bossAttacks >= 1

C14_ChaseThenAttack ==
  /\ [](C14_TickCloses /\ C14_TickAttacks)
  /\ <>(hist.bossAttacks >= 1)

C14_Witness ==
  /\ lastTick.executed
  /\ lastTick.triggers = 1
  /\ hist.bossAttacks = 1
  /\ st.state.playerPosition = Vec(0, 0, 0)
  /\ st.state.bossPosition.z < defaultGameState.bossPosition.z
  /\ DistSq(st.state.bossPosition, st.state.playerPosition)
       <= bossAI.attackRange * bossAI.attackRange

\* C4: whenever the boss's isAttacking flag becomes true it eventually
\* becomes false again (also when the attack-trigger callback returned early
\* because the mixer or the attack action was not available yet).
C4_BossAttackEventuallyEnds == bossAI.isAttacking ~> ~bossAI.isAttacking

====
